---- MODULE Spec2Model ----
(***************************************************************************)
(* SD card example (ESP32-S3, SDMMC + FAT): app_main mounts the card, runs *)
(* a smoke test (create hello.txt, write one line, rename to foo.txt, read *)
(* the line back), then in main/sd_card_example_main.c runs                 *)
(* test_write_speed and test_read_speed on test.txt, and unmounts.          *)
(* The earlier app_main (unnamed/part_000) is the same routine without the  *)
(* two speed tests.                                                         *)
(*                                                                          *)
(* The program is sequential: pc is the position in app_main and the        *)
(* functions it calls.  Every library call is one step whose result is      *)
(* drawn from the results the call can return.  fflush, fsync and the       *)
(* filling of the buffer have no result the code looks at and no effect on  *)
(* the modelled file system, so they are single-outcome steps.              *)
(***************************************************************************)
EXTENDS Integers, Sequences, FiniteSets, TLC

VARIABLES
    variant,      \* which app_main runs: "speed" (main/) or "basic" (part_000)
    pc,           \* position in app_main / test_write_speed / test_read_speed
    exit,         \* how app_main returned ("running" until it does)
    mounted,      \* the storage-mount resource: "no", "yes", "released"
    unmounts,     \* number of esp_vfs_fat_sdcard_unmount calls
    exists,       \* file system: which of the three paths hold a file
    data,         \* file system: content of the two text files
    tsize,        \* file system: size in bytes of test.txt
    nopen,        \* number of open handles per path
    text,         \* the line fprintf formats ("Hello <name>!\n")
    f,            \* app_main's FILE *f: "null", "open", "closed"
    line,         \* app_main's char line[64] (as a C string)
    reported,     \* the string of "Read from file: '%s'" (a 0/1-element seq)
    buffer_size,  \* TEST_BUFFER_SIZE of the build
    target_size,  \* TEST_FILE_SIZE of the build
    s,            \* locals of the write and of the read session
    clock,        \* esp_timer_get_time()
    trace,        \* the library calls made so far, in order
    log           \* the diagnostic lines printed so far, in order

vars == <<variant, pc, exit, mounted, unmounts, exists, data, tsize, nopen,
          text, f, line, reported, buffer_size, target_size, s, clock,
          trace, log>>

(***************************************************************************)
(* Bounds of the model                                                     *)
(***************************************************************************)
MaxBuf == 3        \* small builds: TEST_BUFFER_SIZE in 1..MaxBuf
MaxTarget == 4     \* small builds: TEST_FILE_SIZE in 0..MaxTarget
MaxElapsed == 1    \* microseconds the clock may advance during a session
MaxNameLen == 2    \* length of the card name in a whole-program run
MaxLineLen == 66   \* length of the longest line of the read-back check
MaxFaults == 2     \* library calls that fail in one run

(***************************************************************************)
(* Program constants                                                       *)
(***************************************************************************)
LINE_SIZE == 64                     \* char line[64]
TEST_BUFFER_SIZE == 128 * 1024
TEST_FILE_SIZE == 4 * 1024 * 1024

Paths == {"hello", "foo", "test"}
TextPaths == {"hello", "foo"}
Modes == {"write", "read"}
NL == "\n"

Min(a, b) == IF a < b THEN a ELSE b

RECURSIVE Rep(_, _)
Rep(c, n) == IF n = 0 THEN <<>> ELSE <<c>> \o Rep(c, n - 1)

RECURSIVE SumReq(_, _)
\* sum of the requested sizes of the first n chunks
SumReq(cs, n) == IF n = 0 THEN 0 ELSE SumReq(cs, n - 1) + cs[n].req

(***************************************************************************)
(* Pure pieces of the code                                                 *)
(***************************************************************************)
\* fprintf(f, "Hello %s!\n", card->cid.name)
Fprintf(name) == <<"H", "e", "l", "l", "o", " ">> \o name \o <<"!", NL>>

\* index of the first newline of a string, 0 when there is none
FirstNL(str) ==
    IF \E i \in 1..Len(str) : str[i] = NL
    THEN CHOOSE i \in 1..Len(str) :
            str[i] = NL /\ \A j \in 1..(i - 1) : str[j] # NL
    ELSE 0

\* fgets(line, n, f) on a stream positioned at the start of content: at most
\* n-1 characters, stopping after the first newline
Fgets(n, content) ==
    LET avail == SubSeq(content, 1, Min(Len(content), n - 1))
        k == FirstNL(avail)
    IN IF k > 0 THEN SubSeq(avail, 1, k) ELSE avail

\* the last character cut off whatever it is: line[strlen(line) - 1] = '\0';
StripLastChar(str) == IF Len(str) > 0 THEN SubSeq(str, 1, Len(str) - 1) ELSE str

\* pos = strchr(line, '\n'); if (pos) *pos = '\0';
StripNewline(str) ==
    LET k == FirstNL(str)
    IN IF k > 0 THEN SubSeq(str, 1, k - 1) ELSE str

\* the loop stopping one byte early: while (bytes < TEST_FILE_SIZE - 1)
LoopCondOffByOne(bytes, target) == bytes < target - 1

\* while (bytes < TEST_FILE_SIZE)
LoopCond(bytes, target) == bytes < target

\* the last chunk padded to a whole buffer: to_write = BUFFER
ChunkSizePadded(bytes, target, bufsz) == bufsz

\* to_write = TEST_FILE_SIZE - bytes; if (to_write > BUFFER) to_write = BUFFER
ChunkSize(bytes, target, bufsz) ==
    IF target - bytes > bufsz THEN bufsz ELSE target - bytes

\* only a chunk that transferred nothing taken for a failure:
\* if (written == 0) ... break;
ShortTransferOnlyZero(got, req) == got = 0 /\ req # 0

\* if (written != to_write) ... break;
ShortTransfer(got, req) == got # req

\* float time_s = (end_time - start_time) / 1000000.0;
\* float speed_mb = (TEST_FILE_SIZE / (1024.0 * 1024.0)) / time_s;
\* the float division is done whatever time_s is: x/0 is inf, 0/0 is nan.
\* A finite speed is kept as the quotient it is of: bytes/1048576 over
\* us/1000000.
SpeedMb(size, elapsed_us) ==
    [kind |-> IF elapsed_us # 0 THEN "finite"
              ELSE IF size = 0 THEN "nan" ELSE "inf",
     bytes |-> size, us |-> elapsed_us]

NoSpeed == [kind |-> "none", bytes |-> 0, us |-> 0]

(***************************************************************************)
(* Initial states                                                          *)
(***************************************************************************)
Chars == {"a", "b"}

\* card names of a whole-program run
CardNames == UNION {[1..n -> Chars] : n \in 0..MaxNameLen}

\* lines S of the read-back check: every short string over Chars, and one
\* string of every length up to MaxLineLen
Lines == UNION {[1..n -> Chars] : n \in 0..2}
            \cup {Rep("a", n) : n \in 0..MaxLineLen}

\* the builds: every small pair of sizes; the repository's sizes and the
\* non-multiple scenario next to them
SmallBuilds == {<<b, t>> : b \in 1..MaxBuf, t \in 0..MaxTarget}

LargeBuilds == {<<TEST_BUFFER_SIZE, TEST_FILE_SIZE>>,
                <<TEST_BUFFER_SIZE, TEST_FILE_SIZE + 1>>}

OldText == <<"o", NL>>

Session0 ==
    [buf |-> "none", allocs |-> 0, frees |-> 0, uaf |-> FALSE,
     fh |-> "null", closes |-> 0, pos |-> 0,
     bytes |-> 0, chunks |-> <<>>, outcome |-> "idle",
     start |-> 0, end |-> 0, timed |-> FALSE, divided |-> FALSE,
     speed |-> NoSpeed]

InitCommon ==
    /\ pc = "mount"
    /\ exit = "running"
    /\ mounted = "no"
    /\ unmounts = 0
    /\ exists \in [Paths -> BOOLEAN]
    /\ data = [p \in TextPaths |-> IF exists[p] THEN OldText ELSE <<>>]
    /\ tsize = IF exists["test"] THEN 1 ELSE 0
    /\ nopen = [p \in Paths |-> 0]
    /\ f = "null"
    /\ line = <<>>
    /\ reported = <<>>
    /\ s = [m \in Modes |-> Session0]
    /\ clock = 0
    /\ trace = <<>>
    /\ log = <<>>

\* part_000's app_main on every card name and every old file system; the
\* app_main of main/, whose smoke test is the same code, on one card with
\* no old text file: on every small build with and without an old test.txt,
\* and on the two large builds without one
Init ==
    /\ InitCommon
    /\ \/ /\ variant = "basic"
          /\ text \in {Fprintf(n) : n \in CardNames}
          /\ buffer_size = TEST_BUFFER_SIZE /\ target_size = TEST_FILE_SIZE
       \/ /\ variant = "speed"
          /\ text = Fprintf(<<>>)
          /\ \A p \in TextPaths : ~exists[p]
          /\ \E bt \in SmallBuilds : buffer_size = bt[1] /\ target_size = bt[2]
       \/ /\ variant = "speed"
          /\ text = Fprintf(<<>>)
          /\ \A p \in Paths : ~exists[p]
          /\ \E bt \in LargeBuilds : buffer_size = bt[1] /\ target_size = bt[2]

\* the read-back check: part_000's app_main writing S followed by a newline
InitRT ==
    /\ InitCommon
    /\ variant = "basic"
    /\ text \in {S \o <<NL>> : S \in Lines}
    /\ buffer_size = 1 /\ target_size = 0

(***************************************************************************)
(* app_main: mount and smoke test                                          *)
(***************************************************************************)
Call(op, path, ok) == Append(trace, [op |-> op, path |-> path, ok |-> ok])

\* the calls that have failed so far (stat saying "no such file" is an answer)
Failed == {i \in 1..Len(trace) : ~trace[i].ok /\ trace[i].op # "stat"}

\* the calls that may fail in one run: MaxFaults, one fewer in a large build
FaultBudget == IF buffer_size > MaxBuf THEN MaxFaults - 1 ELSE MaxFaults

\* one more call may fail
CanFail == Cardinality(Failed) < FaultBudget

\* the results of a call that succeeds or fails
Results == IF CanFail THEN BOOLEAN ELSE {TRUE}

\* what an uninitialised or indeterminate line[64] may hold as a C string
Garbage == {<<>>, <<"?">>, <<"?", NL, "?">>}

\* return from app_main
Return(how) == pc' = "done" /\ exit' = how

\* the result of the mount not checked: app_main goes on with no card mounted
MountUnchecked ==
    /\ pc = "mount"
    /\ \E ret \in (IF CanFail THEN {"ESP_OK", "ESP_FAIL", "ESP_ERR_OTHER"}
                           ELSE {"ESP_OK"}) :
        /\ trace' = Call("mount", "-", ret = "ESP_OK")
        /\ mounted' = IF ret = "ESP_OK" THEN "yes" ELSE mounted
        /\ pc' = "hello_open"
        /\ log' = Append(log, [tag |-> "Filesystem mounted", args |-> <<>>])
        /\ exit' = exit
    /\ UNCHANGED <<variant, unmounts, exists, data, tsize, nopen, text, f, line,
                   reported, buffer_size, target_size, s, clock>>

\* ret = esp_vfs_fat_sdmmc_mount(...); if (ret != ESP_OK) { ...; return; }
Mount ==
    /\ pc = "mount"
    /\ \E ret \in (IF CanFail THEN {"ESP_OK", "ESP_FAIL", "ESP_ERR_OTHER"}
                           ELSE {"ESP_OK"}) :
        /\ trace' = Call("mount", "-", ret = "ESP_OK")
        /\ IF ret = "ESP_OK"
           THEN /\ mounted' = "yes"
                /\ pc' = "hello_open"
                /\ log' = Append(log, [tag |-> "Filesystem mounted", args |-> <<>>])
                /\ exit' = exit
           ELSE /\ mounted' = mounted
                /\ Return("mount_failed")
                /\ log' = Append(log,
                      [tag |-> IF ret = "ESP_FAIL"
                               THEN "Failed to mount filesystem"
                               ELSE "Failed to initialize the card",
                       args |-> <<>>])
    /\ UNCHANGED <<variant, unmounts, exists, data, tsize, nopen, text, f, line,
                   reported, buffer_size, target_size, s, clock>>

\* FILE *f = fopen(file_hello, "w"); if (f == NULL) { ...; return; }
HelloOpen ==
    /\ pc = "hello_open"
    /\ \E ok \in Results :
        /\ trace' = Call("fopen", "hello", ok)
        /\ IF ok
           THEN /\ f' = "open"
                /\ exists' = [exists EXCEPT !["hello"] = TRUE]
                /\ data' = [data EXCEPT !["hello"] = <<>>]
                /\ nopen' = [nopen EXCEPT !["hello"] = @ + 1]
                /\ pc' = "hello_write"
                /\ UNCHANGED <<exit, log>>
           ELSE /\ Return("open_w_failed")
                /\ log' = Append(log, [tag |-> "Failed to open file for writing",
                                       args |-> <<>>])
                /\ UNCHANGED <<f, exists, data, nopen>>
    /\ UNCHANGED <<variant, mounted, unmounts, tsize, text, line, reported,
                   buffer_size, target_size, s, clock>>

\* fprintf(f, "Hello %s!\n", card->cid.name);  the result is not looked at.
\* A failed fprintf leaves the file without the line.
HelloWrite ==
    /\ pc = "hello_write"
    /\ \E ok \in Results :
        /\ trace' = Call("fprintf", "hello", ok)
        /\ data' = [data EXCEPT !["hello"] = IF ok THEN text ELSE <<>>]
    /\ pc' = "hello_close"
    /\ UNCHANGED <<variant, exit, mounted, unmounts, exists, tsize, nopen, text,
                   f, line, reported, buffer_size, target_size, s, clock, log>>

\* fclose(f); ESP_LOGI(TAG, "File written");  the result is not looked at.
\* A failed fclose loses the buffered line; the handle is gone either way.
HelloClose ==
    /\ pc = "hello_close"
    /\ \E ok \in Results :
        /\ trace' = Call("fclose", "hello", ok)
        /\ data' = [data EXCEPT !["hello"] = IF ok THEN @ ELSE <<>>]
    /\ f' = "closed"
    /\ nopen' = [nopen EXCEPT !["hello"] = @ - 1]
    /\ log' = Append(log, [tag |-> "File written", args |-> <<>>])
    /\ pc' = "foo_stat"
    /\ UNCHANGED <<variant, exit, mounted, unmounts, exists, tsize, text, line,
                   reported, buffer_size, target_size, s, clock>>

\* if (stat(file_foo, &st) == 0) { unlink(file_foo); }
FooStat ==
    /\ pc = "foo_stat"
    /\ trace' = Call("stat", "foo", exists["foo"])
    /\ pc' = IF exists["foo"] THEN "foo_unlink" ELSE "rename"
    /\ UNCHANGED <<variant, exit, mounted, unmounts, exists, data, tsize, nopen,
                   text, f, line, reported, buffer_size, target_size, s, clock,
                   log>>

\* unlink(file_foo);  the result is not looked at
FooUnlink ==
    /\ pc = "foo_unlink"
    /\ \E ok \in Results :
        /\ trace' = Call("unlink", "foo", ok)
        /\ exists' = [exists EXCEPT !["foo"] = IF ok THEN FALSE ELSE @]
        /\ data' = [data EXCEPT !["foo"] = IF ok THEN <<>> ELSE @]
    /\ pc' = "rename"
    /\ UNCHANGED <<variant, exit, mounted, unmounts, tsize, nopen, text, f, line,
                   reported, buffer_size, target_size, s, clock, log>>

\* if (rename(file_hello, file_foo) != 0) { ...; return; }
\* FAT's rename does not replace an existing target.
Rename ==
    /\ pc = "rename"
    /\ \E ok \in (IF exists["foo"] THEN {FALSE} ELSE Results) :
        /\ trace' = Call("rename", "hello", ok)
        /\ IF ok
           THEN /\ exists' = [exists EXCEPT !["hello"] = FALSE, !["foo"] = TRUE]
                /\ data' = [data EXCEPT !["hello"] = <<>>, !["foo"] = data["hello"]]
                /\ pc' = "foo_open"
                /\ UNCHANGED <<exit, log>>
           ELSE /\ Return("rename_failed")
                /\ log' = Append(log, [tag |-> "Rename failed", args |-> <<>>])
                /\ UNCHANGED <<exists, data>>
    /\ UNCHANGED <<variant, mounted, unmounts, tsize, nopen, text, f, line,
                   reported, buffer_size, target_size, s, clock>>

\* f = fopen(file_foo, "r"); if (f == NULL) { ...; return; }
FooOpen ==
    /\ pc = "foo_open"
    /\ \E ok \in Results :
        /\ trace' = Call("fopen", "foo", ok)
        /\ IF ok
           THEN /\ f' = "open"
                /\ nopen' = [nopen EXCEPT !["foo"] = @ + 1]
                /\ pc' = "fgets"
                /\ UNCHANGED <<exit, log>>
           ELSE /\ Return("open_r_failed")
                /\ log' = Append(log, [tag |-> "Failed to open file for reading",
                                       args |-> <<>>])
                /\ UNCHANGED <<f, nopen>>
    /\ UNCHANGED <<variant, mounted, unmounts, exists, data, tsize, text, line,
                   reported, buffer_size, target_size, s, clock>>

\* char line[64]; fgets(line, sizeof(line), f);  the result is not looked at.
\* fgets returns NULL on a read error or at end of file with nothing read,
\* and line[] then holds whatever the stack held.
FooFgets ==
    /\ pc = "fgets"
    /\ \E err \in (IF CanFail THEN BOOLEAN ELSE {FALSE}) :
        LET ok == ~err /\ data["foo"] # <<>>
        IN /\ trace' = Call("fgets", "foo", ok)
           /\ IF ok
              THEN line' = Fgets(LINE_SIZE, data["foo"])
              ELSE line' \in Garbage
    /\ pc' = "foo_close"
    /\ UNCHANGED <<variant, exit, mounted, unmounts, exists, data, tsize, nopen,
                   text, f, reported, buffer_size, target_size, s, clock, log>>

\* fclose(f);
FooClose ==
    /\ pc = "foo_close"
    /\ \E ok \in Results : trace' = Call("fclose", "foo", ok)
    /\ f' = "closed"
    /\ nopen' = [nopen EXCEPT !["foo"] = @ - 1]
    /\ pc' = "strip"
    /\ UNCHANGED <<variant, exit, mounted, unmounts, exists, data, tsize, text,
                   line, reported, buffer_size, target_size, s, clock, log>>

\* strchr / *pos = '\0'; ESP_LOGI(TAG, "Read from file: '%s'", line);
\* then test_write_speed() in main/, the unmount in part_000
StripReport ==
    /\ pc = "strip"
    /\ line' = StripNewline(line)
    /\ reported' = <<line'>>
    /\ log' = Append(log, [tag |-> "Read from file", args |-> <<line'>>])
    /\ pc' = IF variant = "speed" THEN "w_stat" ELSE "unmount"
    /\ UNCHANGED <<variant, exit, mounted, unmounts, exists, data, tsize, nopen,
                   text, f, buffer_size, target_size, s, clock, trace>>

\* esp_vfs_fat_sdcard_unmount(mount_point, card); "Card unmounted"; return
Unmount ==
    /\ pc = "unmount"
    /\ trace' = Call("unmount", "-", TRUE)
    /\ mounted' = "released"
    /\ unmounts' = unmounts + 1
    /\ log' = Append(log, [tag |-> "Card unmounted", args |-> <<>>])
    /\ Return("normal")
    /\ UNCHANGED <<variant, exists, data, tsize, nopen, text, f, line, reported,
                   buffer_size, target_size, s, clock>>

(***************************************************************************)
(* test_write_speed                                                        *)
(***************************************************************************)
Came(tag, args) == Append(log, [tag |-> tag, args |-> args])

\* byte counts a call asked for req bytes returns when it comes up short
ShortCounts(req) == {0, req - 1}

\* the free left out
FreeBufferOmitted(sess) == sess

\* free(buffer);
FreeBuffer(sess) == [sess EXCEPT !.buf = "freed", !.frees = @ + 1]

\* the read test skipped when the write test returns
AfterWriteTestSkipRead == "unmount"

\* where app_main goes on when test_write_speed returns
AfterWriteTest == "r_malloc"

\* where app_main goes on when test_read_speed returns
AfterReadTest == "unmount"

\* the unlink made whatever stat answers: stat(...); unlink(TEST_FILE_PATH);
WStatUnlinkAlways ==
    /\ pc = "w_stat"
    /\ trace' = Call("stat", "test", exists["test"])
    /\ log' = Came("Testing write speed...", <<>>)
    /\ pc' = "w_unlink"
    /\ UNCHANGED <<variant, exit, mounted, unmounts, exists, data, tsize, nopen,
                   text, f, line, reported, buffer_size, target_size, s, clock>>

\* if (stat(TEST_FILE_PATH, &st) == 0) { unlink(TEST_FILE_PATH); }
WStat ==
    /\ pc = "w_stat"
    /\ trace' = Call("stat", "test", exists["test"])
    /\ log' = Came("Testing write speed...", <<>>)
    /\ pc' = IF exists["test"] THEN "w_unlink" ELSE "w_malloc"
    /\ UNCHANGED <<variant, exit, mounted, unmounts, exists, data, tsize, nopen,
                   text, f, line, reported, buffer_size, target_size, s, clock>>

\* unlink(TEST_FILE_PATH);  the result is not looked at
WUnlink ==
    /\ pc = "w_unlink"
    /\ \E ok \in Results :
        /\ trace' = Call("unlink", "test", ok)
        /\ exists' = [exists EXCEPT !["test"] = IF ok THEN FALSE ELSE @]
        /\ tsize' = IF ok THEN 0 ELSE tsize
    /\ pc' = "w_malloc"
    /\ UNCHANGED <<variant, exit, mounted, unmounts, data, nopen, text, f, line,
                   reported, buffer_size, target_size, s, clock, log>>

\* the result of malloc not checked: the test goes on with a NULL buffer
WMallocUnchecked ==
    /\ pc = "w_malloc"
    /\ \E ok \in Results :
        /\ trace' = Call("malloc", "-", ok)
        /\ s' = IF ok
                THEN [s EXCEPT !["write"].buf = "held", !["write"].allocs = @ + 1]
                ELSE s
        /\ log' = log
        /\ pc' = "w_fopen"
    /\ UNCHANGED <<variant, exit, mounted, unmounts, exists, data, tsize, nopen,
                   text, f, line, reported, buffer_size, target_size, clock>>

\* buffer = malloc(TEST_BUFFER_SIZE); if (buffer == NULL) { ...; return; }
\* for (i ...) buffer[i] = i & 0xFF;
WMalloc ==
    /\ pc = "w_malloc"
    /\ \E ok \in Results :
        /\ trace' = Call("malloc", "-", ok)
        /\ IF ok
           THEN /\ s' = [s EXCEPT !["write"].buf = "held",
                                  !["write"].allocs = @ + 1]
                /\ pc' = "w_fopen"
                /\ log' = log
           ELSE /\ s' = s
                /\ log' = Came("Failed to allocate buffer", <<>>)
                /\ pc' = AfterWriteTest
    /\ UNCHANGED <<variant, exit, mounted, unmounts, exists, data, tsize, nopen,
                   text, f, line, reported, buffer_size, target_size, clock>>

\* f = fopen(TEST_FILE_PATH, "w"); if (f == NULL) { ...; free(buffer); return; }
WFopen ==
    /\ pc = "w_fopen"
    /\ \E ok \in Results :
        IF ok
        THEN /\ trace' = Call("fopen", "test", TRUE)
             /\ s' = [s EXCEPT !["write"].fh = "open"]
             /\ exists' = [exists EXCEPT !["test"] = TRUE]
             /\ tsize' = 0
             /\ nopen' = [nopen EXCEPT !["test"] = @ + 1]
             /\ log' = Came("Opening file for writing", <<>>)
             /\ pc' = "w_start"
        ELSE /\ trace' = Append(Call("fopen", "test", FALSE),
                                [op |-> "free", path |-> "-", ok |-> TRUE])
             /\ s' = [s EXCEPT !["write"] = FreeBuffer(@)]
             /\ log' = Append(Came("Opening file for writing", <<>>),
                              [tag |-> "Failed to open file for writing",
                               args |-> [path |-> "test"]])
             /\ pc' = AfterWriteTest
             /\ UNCHANGED <<exists, tsize, nopen>>
    /\ UNCHANGED <<variant, exit, mounted, unmounts, data, text, f, line,
                   reported, buffer_size, target_size, clock>>

\* int64_t start_time = esp_timer_get_time(); size_t bytes_written = 0;
WStart ==
    /\ pc = "w_start"
    /\ trace' = Call("timer", "-", TRUE)
    /\ s' = [s EXCEPT !["write"].start = clock, !["write"].bytes = 0,
                      !["write"].outcome = "transferring"]
    /\ pc' = "w_loop"
    /\ UNCHANGED <<variant, exit, mounted, unmounts, exists, data, tsize, nopen,
                   text, f, line, reported, buffer_size, target_size, clock, log>>

\* one iteration of while (bytes_written < TEST_FILE_SIZE) { ... }
WChunk ==
    /\ pc = "w_loop"
    /\ LoopCond(s["write"].bytes, target_size)
    /\ LET to_write == ChunkSize(s["write"].bytes, target_size, buffer_size)
       IN \E written \in {to_write} \cup
                        (IF CanFail THEN ShortCounts(to_write) ELSE {}) :
            /\ trace' = Call("fwrite", "test", written = to_write)
            /\ tsize' = tsize + written
            /\ IF ShortTransfer(written, to_write)
               THEN /\ s' = [s EXCEPT
                          !["write"].chunks = Append(@, [req |-> to_write, got |-> written]),
                          !["write"].uaf = @ \/ s["write"].buf # "held",
                          !["write"].outcome = "failed"]
                    /\ log' = Came("Write failed", <<>>)
                    /\ pc' = "w_fflush"
               ELSE /\ s' = [s EXCEPT
                          !["write"].chunks = Append(@, [req |-> to_write, got |-> written]),
                          !["write"].uaf = @ \/ s["write"].buf # "held",
                          !["write"].bytes = @ + written]
                    /\ log' = log
                    /\ pc' = "w_loop"
    /\ UNCHANGED <<variant, exit, mounted, unmounts, exists, data, nopen, text, f,
                   line, reported, buffer_size, target_size, clock>>

\* the loop condition is false: the loop is left with every chunk written
WLoopDone ==
    /\ pc = "w_loop"
    /\ ~LoopCond(s["write"].bytes, target_size)
    /\ s' = [s EXCEPT !["write"].outcome = "completed"]
    /\ pc' = "w_fflush"
    /\ UNCHANGED <<variant, exit, mounted, unmounts, exists, data, tsize, nopen,
                   text, f, line, reported, buffer_size, target_size, clock,
                   trace, log>>

\* the flush left out: the loop is followed by fsync at once
WFflushOmitted ==
    /\ pc = "w_fflush"
    /\ pc' = "w_fsync"
    /\ UNCHANGED <<variant, exit, mounted, unmounts, exists, data, tsize, nopen,
                   text, f, line, reported, buffer_size, target_size, s, clock,
                   trace, log>>

\* fflush(f);
WFflush ==
    /\ pc = "w_fflush"
    /\ trace' = Call("fflush", "test", TRUE)
    /\ pc' = "w_fsync"
    /\ UNCHANGED <<variant, exit, mounted, unmounts, exists, data, tsize, nopen,
                   text, f, line, reported, buffer_size, target_size, s, clock,
                   log>>

\* fsync(fileno(f));
WFsync ==
    /\ pc = "w_fsync"
    /\ trace' = Call("fsync", "test", TRUE)
    /\ pc' = "w_fclose"
    /\ UNCHANGED <<variant, exit, mounted, unmounts, exists, data, tsize, nopen,
                   text, f, line, reported, buffer_size, target_size, s, clock,
                   log>>

\* fclose(f);
WFclose ==
    /\ pc = "w_fclose"
    /\ trace' = Call("fclose", "test", TRUE)
    /\ s' = [s EXCEPT !["write"].fh = "closed", !["write"].closes = @ + 1]
    /\ nopen' = [nopen EXCEPT !["test"] = @ - 1]
    /\ pc' = "w_end"
    /\ UNCHANGED <<variant, exit, mounted, unmounts, exists, data, tsize, text, f,
                   line, reported, buffer_size, target_size, clock, log>>

\* end_time = esp_timer_get_time(); time_s = ...; speed_mb = ...;
\* ESP_LOGI(TAG, "Write speed: %.2f MB/s (%.2f seconds for %d bytes)", ...)
WEnd ==
    /\ pc = "w_end"
    /\ \E d \in 0..MaxElapsed :
        /\ clock' = clock + d
        /\ trace' = Call("timer", "-", TRUE)
        /\ LET elapsed == clock' - s["write"].start
               speed_mb == SpeedMb(target_size, elapsed)
           IN /\ s' = [s EXCEPT !["write"].end = clock',
                                !["write"].timed = TRUE,
                                !["write"].divided = TRUE,
                                !["write"].speed = speed_mb]
              /\ log' = Came("Write speed",
                             [speed_mb |-> speed_mb, time_us |-> elapsed,
                              bytes |-> target_size])
    /\ pc' = "w_free"
    /\ UNCHANGED <<variant, exit, mounted, unmounts, exists, data, tsize, nopen,
                   text, f, line, reported, buffer_size, target_size>>

\* free(buffer); and return to app_main
WFree ==
    /\ pc = "w_free"
    /\ trace' = Call("free", "-", TRUE)
    /\ s' = [s EXCEPT !["write"] = FreeBuffer(@)]
    /\ pc' = AfterWriteTest
    /\ UNCHANGED <<variant, exit, mounted, unmounts, exists, data, tsize, nopen,
                   text, f, line, reported, buffer_size, target_size, clock, log>>

(***************************************************************************)
(* test_read_speed                                                         *)
(***************************************************************************)
\* buffer = heap_caps_malloc(TEST_BUFFER_SIZE, MALLOC_CAP_DMA);
\* if (buffer == NULL) { ...; return; }
RMalloc ==
    /\ pc = "r_malloc"
    /\ \E ok \in Results :
        /\ trace' = Call("malloc", "-", ok)
        /\ IF ok
           THEN /\ s' = [s EXCEPT !["read"].buf = "held",
                                  !["read"].allocs = @ + 1]
                /\ pc' = "r_fopen"
                /\ log' = Came("Testing read speed...", <<>>)
           ELSE /\ s' = s
                /\ log' = Append(Came("Testing read speed...", <<>>),
                                 [tag |-> "Failed to allocate buffer",
                                  args |-> <<>>])
                /\ pc' = AfterReadTest
    /\ UNCHANGED <<variant, exit, mounted, unmounts, exists, data, tsize, nopen,
                   text, f, line, reported, buffer_size, target_size, clock>>

\* f = fopen(TEST_FILE_PATH, "r"); if (f == NULL) { ...; free(buffer); return; }
RFopen ==
    /\ pc = "r_fopen"
    /\ \E ok \in (IF exists["test"] THEN Results ELSE {FALSE}) :
        IF ok
        THEN /\ trace' = Call("fopen", "test", TRUE)
             /\ s' = [s EXCEPT !["read"].fh = "open", !["read"].pos = 0]
             /\ nopen' = [nopen EXCEPT !["test"] = @ + 1]
             /\ log' = Came("Opening file for reading", <<>>)
             /\ pc' = "r_start"
        ELSE /\ trace' = Append(Call("fopen", "test", FALSE),
                                [op |-> "free", path |-> "-", ok |-> TRUE])
             /\ s' = [s EXCEPT !["read"] = FreeBuffer(@)]
             /\ log' = Append(Came("Opening file for reading", <<>>),
                              [tag |-> "Failed to open file for reading",
                               args |-> [path |-> "test"]])
             /\ pc' = AfterReadTest
             /\ nopen' = nopen
    /\ UNCHANGED <<variant, exit, mounted, unmounts, exists, data, tsize, text, f,
                   line, reported, buffer_size, target_size, clock>>

\* int64_t start_time = esp_timer_get_time(); size_t bytes_read = 0;
RStart ==
    /\ pc = "r_start"
    /\ trace' = Call("timer", "-", TRUE)
    /\ s' = [s EXCEPT !["read"].start = clock, !["read"].bytes = 0,
                      !["read"].outcome = "transferring"]
    /\ pc' = "r_loop"
    /\ UNCHANGED <<variant, exit, mounted, unmounts, exists, data, tsize, nopen,
                   text, f, line, reported, buffer_size, target_size, clock, log>>

\* what fread(buffer, 1, to_read, f) can return with avail bytes left in the
\* file: the bytes there are (end of file when fewer than asked for), or
\* fewer because the device failed
FreadResults(to_read, avail) ==
    {[got |-> Min(to_read, avail), ferror |-> FALSE, feof |-> avail < to_read]}
        \cup {[got |-> n, ferror |-> TRUE, feof |-> FALSE] :
                n \in IF CanFail
                      THEN {k \in ShortCounts(Min(to_read, avail)) : k >= 0}
                      ELSE {}}

\* the lines the failure branch of the read loop prints
ReadFailureLines(r, to_read, bytes_read) ==
    <<[tag |-> "Read partial/failed",
       args |-> [read |-> r.got, expected |-> to_read,
                 bytes_read_total |-> bytes_read,
                 ferror |-> r.ferror, feof |-> r.feof]],
      IF r.ferror
      THEN [tag |-> "Read failed with error", args |-> [errno |-> "errno"]]
      ELSE [tag |-> "Unexpected EOF", args |-> [bytes_read |-> bytes_read]]>>

\* one iteration of while (bytes_read < TEST_FILE_SIZE) { ... }
RChunk ==
    /\ pc = "r_loop"
    /\ LoopCond(s["read"].bytes, target_size)
    /\ LET to_read == ChunkSize(s["read"].bytes, target_size, buffer_size)
       IN \E r \in FreadResults(to_read, tsize - s["read"].pos) :
            /\ trace' = Call("fread", "test", r.got = to_read)
            /\ IF ShortTransfer(r.got, to_read)
               THEN /\ s' = [s EXCEPT
                          !["read"].chunks = Append(@, [req |-> to_read, got |-> r.got]),
                          !["read"].uaf = @ \/ s["read"].buf # "held",
                          !["read"].pos = @ + r.got,
                          !["read"].outcome = "failed"]
                    /\ log' = log \o ReadFailureLines(r, to_read, s["read"].bytes)
                    /\ pc' = "r_fclose"
               ELSE /\ s' = [s EXCEPT
                          !["read"].chunks = Append(@, [req |-> to_read, got |-> r.got]),
                          !["read"].uaf = @ \/ s["read"].buf # "held",
                          !["read"].pos = @ + r.got,
                          !["read"].bytes = @ + r.got]
                    /\ log' = log
                    /\ pc' = "r_loop"
    /\ UNCHANGED <<variant, exit, mounted, unmounts, exists, data, tsize, nopen,
                   text, f, line, reported, buffer_size, target_size, clock>>

\* the loop condition is false: the loop is left with every chunk read
RLoopDone ==
    /\ pc = "r_loop"
    /\ ~LoopCond(s["read"].bytes, target_size)
    /\ s' = [s EXCEPT !["read"].outcome = "completed"]
    /\ pc' = "r_fclose"
    /\ UNCHANGED <<variant, exit, mounted, unmounts, exists, data, tsize, nopen,
                   text, f, line, reported, buffer_size, target_size, clock,
                   trace, log>>

\* the close left out after the read loop
RFcloseOmitted ==
    /\ pc = "r_fclose"
    /\ pc' = "r_end"
    /\ UNCHANGED <<variant, exit, mounted, unmounts, exists, data, tsize, nopen,
                   text, f, line, reported, buffer_size, target_size, s, clock,
                   trace, log>>

\* fclose(f);
RFclose ==
    /\ pc = "r_fclose"
    /\ trace' = Call("fclose", "test", TRUE)
    /\ s' = [s EXCEPT !["read"].fh = "closed", !["read"].closes = @ + 1]
    /\ nopen' = [nopen EXCEPT !["test"] = @ - 1]
    /\ pc' = "r_end"
    /\ UNCHANGED <<variant, exit, mounted, unmounts, exists, data, tsize, text, f,
                   line, reported, buffer_size, target_size, clock, log>>

\* end_time = esp_timer_get_time(); time_s = ...; speed_mb = ...;
\* ESP_LOGI(TAG, "Read speed: %.2f MB/s (%.2f seconds for %d bytes)", ...)
REnd ==
    /\ pc = "r_end"
    /\ \E d \in 0..MaxElapsed :
        /\ clock' = clock + d
        /\ trace' = Call("timer", "-", TRUE)
        /\ LET elapsed == clock' - s["read"].start
               speed_mb == SpeedMb(target_size, elapsed)
           IN /\ s' = [s EXCEPT !["read"].end = clock',
                                !["read"].timed = TRUE,
                                !["read"].divided = TRUE,
                                !["read"].speed = speed_mb]
              /\ log' = Came("Read speed",
                             [speed_mb |-> speed_mb, time_us |-> elapsed,
                              bytes |-> target_size])
    /\ pc' = "r_free"
    /\ UNCHANGED <<variant, exit, mounted, unmounts, exists, data, tsize, nopen,
                   text, f, line, reported, buffer_size, target_size>>

\* free(buffer);
RFree ==
    /\ pc = "r_free"
    /\ trace' = Call("free", "-", TRUE)
    /\ s' = [s EXCEPT !["read"] = FreeBuffer(@)]
    /\ pc' = "r_unlink"
    /\ UNCHANGED <<variant, exit, mounted, unmounts, exists, data, tsize, nopen,
                   text, f, line, reported, buffer_size, target_size, clock, log>>

\* unlink(TEST_FILE_PATH); and return to app_main
RUnlink ==
    /\ pc = "r_unlink"
    /\ \E ok \in (IF exists["test"] THEN Results ELSE {FALSE}) :
        /\ trace' = Call("unlink", "test", ok)
        /\ exists' = [exists EXCEPT !["test"] = IF ok THEN FALSE ELSE @]
        /\ tsize' = IF ok THEN 0 ELSE tsize
    /\ pc' = AfterReadTest
    /\ UNCHANGED <<variant, exit, mounted, unmounts, data, nopen, text, f, line,
                   reported, buffer_size, target_size, s, clock, log>>

(***************************************************************************)
(* Specifications                                                          *)
(***************************************************************************)
Next ==
    \/ Mount \/ HelloOpen \/ HelloWrite \/ HelloClose \/ FooStat \/ FooUnlink
    \/ Rename \/ FooOpen \/ FooFgets \/ FooClose \/ StripReport
    \/ WStat \/ WUnlink \/ WMalloc \/ WFopen \/ WStart \/ WChunk \/ WLoopDone
    \/ WFflush \/ WFsync \/ WFclose \/ WEnd \/ WFree
    \/ RMalloc \/ RFopen \/ RStart \/ RChunk \/ RLoopDone \/ RFclose \/ REnd
    \/ RFree \/ RUnlink
    \/ Unmount

Spec == Init /\ [][Next]_vars

\* part_000's app_main alone, on the lines of the read-back check
NextRT ==
    \/ Mount \/ HelloOpen \/ HelloWrite \/ HelloClose \/ FooStat \/ FooUnlink
    \/ Rename \/ FooOpen \/ FooFgets \/ FooClose \/ StripReport
    \/ Unmount

SpecRT == InitRT /\ [][NextRT]_vars

\* the program runs to the end of app_main once started
FairSpec == Spec /\ WF_vars(Next)

TypeOK ==
    /\ pc \in {"mount", "hello_open", "hello_write", "hello_close", "foo_stat",
               "foo_unlink", "rename", "foo_open", "fgets", "foo_close",
               "strip", "w_stat", "w_unlink", "w_malloc", "w_fopen", "w_start",
               "w_loop", "w_fflush", "w_fsync", "w_fclose", "w_end", "w_free",
               "r_malloc", "r_fopen", "r_start", "r_loop", "r_fclose", "r_end",
               "r_free", "r_unlink", "unmount", "done"}
    /\ mounted \in {"no", "yes", "released"}
    /\ \A p \in Paths : nopen[p] \in 0..1
    /\ \A m \in Modes : s[m].bytes \in 0..target_size

(***************************************************************************)
(* Properties                                                              *)
(***************************************************************************)
\* indices of the calls of op on path
Calls(op, path) ==
    {i \in 1..Len(trace) : trace[i].op = op /\ trace[i].path = path}

\* index of the first / last call of a set of indices, 0 when there is none
First(S) == IF S = {} THEN 0 ELSE CHOOSE i \in S : \A j \in S : i <= j
Last(S) == IF S = {} THEN 0 ELSE CHOOSE i \in S : \A j \in S : j <= i

MountSucceeded == \E i \in Calls("mount", "-") : trace[i].ok

\* C1: once the mount has succeeded, app_main does not return before the
\* mount has been released by exactly one unmount call, whichever way it
\* returns.
C1_UnmountOnEveryExit ==
    (pc = "done" /\ MountSucceeded) => (unmounts = 1 /\ mounted = "released")

\* C2: in the write session the last fwrite comes before the fflush, the
\* fflush before the fsync, the fsync before the fclose and the fclose
\* before the end timestamp is read; no fwrite follows the fflush.
C2_FlushSyncCloseStop ==
    LET lastw == Last(Calls("fwrite", "test"))
        fl == First(Calls("fflush", "test"))
        sy == First(Calls("fsync", "test"))
        cl == First(Calls("fclose", "test"))
        timers == Calls("timer", "-")
        stop == First(timers \ {First(timers)})
    IN /\ fl > 0 => lastw < fl
       /\ s["write"].closes > 0 => (0 < fl /\ fl < sy /\ sy < cl)
       /\ s["write"].timed => (0 < cl /\ cl < stop)
       /\ (s["write"].outcome \in {"completed", "failed"}
             /\ pc \notin {"w_fflush", "w_fsync", "w_fclose"})
          => s["write"].closes = 1

C2_Witness ==
    /\ s["write"].timed
    /\ s["write"].outcome = "completed"
    /\ Len(s["write"].chunks) >= 2

\* a chunk that transferred fewer bytes than requested
Short(c) == c.got < c.req

\* C3: in either mode, a chunk that comes up short is the last chunk of
\* its session, the session is then Failed, and its byte count is the sum of
\* the chunks before it.
C3_ShortChunkFails ==
    \A m \in Modes :
        LET cs == s[m].chunks
            n == Len(cs)
        IN /\ \A i \in 1..(n - 1) : ~Short(cs[i])
           /\ (n > 0 /\ Short(cs[n]))
                => /\ s[m].outcome = "failed"
                   /\ s[m].bytes = SumReq(cs, n - 1)
           /\ s[m].outcome = "failed" => (n > 0 /\ Short(cs[n]))

C3_Witness ==
    /\ pc = "done"
    /\ \A m \in Modes :
        /\ s[m].outcome = "failed"
        /\ Len(s[m].chunks) >= 3
        /\ s[m].bytes > 0

\* what a printed failure line carries of a partial transfer
Carried(e) ==
    {x \in {"bytes_so_far"} :
        \E k \in {"bytes_read_total", "bytes_written_total"} : k \in DOMAIN e.args}
    \cup {x \in {"requested"} : "expected" \in DOMAIN e.args}
    \cup {x \in {"cause"} : {"ferror", "feof"} \subseteq DOMAIN e.args}

\* the line printed when a chunk of the session comes up short
FailureTag(m) == IF m = "write" THEN "Write failed" ELSE "Read partial/failed"

FailureLines(m) == {i \in 1..Len(log) : log[i].tag = FailureTag(m)}

\* C4: in either mode, a session that failed on a short chunk printed a
\* failure that carries the bytes transferred so far, the requested size
\* and the cause (end of data or device error).
C4_FailureCarriesAll ==
    \A m \in Modes :
        s[m].outcome = "failed" =>
            \E i \in FailureLines(m) :
                Carried(log[i]) = {"bytes_so_far", "requested", "cause"}

\* the speed line of a session
SpeedTag(m) == IF m = "write" THEN "Write speed" ELSE "Read speed"

SpeedLines(m) == {i \in 1..Len(log) : log[i].tag = SpeedTag(m)}

\* C5: in either mode, when the end timestamp is not above the start
\* timestamp, nothing is divided by the elapsed time and no speed line is
\* printed.
C5_NoDivisionWhenImmeasurable ==
    \A m \in Modes :
        (s[m].timed /\ s[m].end - s[m].start <= 0)
            => (~s[m].divided /\ SpeedLines(m) = {})

\* the loop of the session has been left
LoopLeft(m) == s[m].outcome \in {"completed", "failed"}

NoShort(m) == \A i \in 1..Len(s[m].chunks) : ~Short(s[m].chunks[i])

\* C6: when the target size is a positive multiple of the buffer size and
\* no chunk came up short, the loop is left Completed after exactly
\* target/buffer chunks of buffer_size bytes each, with all bytes counted.
C6_ExactMultiple ==
    \A m \in Modes :
        (LoopLeft(m) /\ NoShort(m) /\ target_size > 0
            /\ target_size % buffer_size = 0)
        => /\ s[m].outcome = "completed"
           /\ Len(s[m].chunks) = target_size \div buffer_size
           /\ \A i \in 1..Len(s[m].chunks) : s[m].chunks[i].req = buffer_size
           /\ s[m].bytes = target_size

C6_Witness ==
    /\ buffer_size = 131072
    /\ target_size = 4194304
    /\ \A m \in Modes : s[m].outcome = "completed" /\ Len(s[m].chunks) = 32

\* C7: when the target size is not a multiple of the buffer size and no
\* chunk came up short, the loop is left Completed after floor(target/buffer)
\* chunks of buffer_size bytes and one last chunk of target mod buffer
\* bytes, with all bytes counted.
C7_FinalPartialChunk ==
    \A m \in Modes :
        (LoopLeft(m) /\ NoShort(m) /\ target_size % buffer_size # 0)
        => LET n == Len(s[m].chunks)
           IN /\ s[m].outcome = "completed"
              /\ n = (target_size \div buffer_size) + 1
              /\ \A i \in 1..(n - 1) : s[m].chunks[i].req = buffer_size
              /\ s[m].chunks[n].req = target_size % buffer_size
              /\ s[m].bytes = target_size

C7_Witness ==
    /\ buffer_size = 131072
    /\ target_size = 4194305
    /\ \A m \in Modes :
        /\ s[m].outcome = "completed"
        /\ Len(s[m].chunks) = 33
        /\ s[m].chunks[33].req = 1

\* the steps of the smoke test that can fail
SmokeStep(c) ==
    /\ c.path \in TextPaths
    /\ c.op \in {"fopen", "fprintf", "fclose", "rename", "fgets"}

\* C8: when a step of the smoke test fails, no later step of the smoke
\* test is executed and no read-back string is reported.
C8_SmokeStepsFatal ==
    \A i \in 1..Len(trace) :
        (SmokeStep(trace[i]) /\ ~trace[i].ok)
            => /\ \A j \in (i + 1)..Len(trace) : ~SmokeStep(trace[j])
               /\ reported = <<>>

\* the line S of the read-back check: text without its newline
LineS == SubSeq(text, 1, Len(text) - 1)

\* every call made so far succeeded
AllSucceeded == Failed = {}

\* C9 as stated: for every line S without a newline, the string reported
\* after writing S and a newline, renaming and reading back is S.
C9_RoundTripAnyLine ==
    (reported # <<>> /\ AllSucceeded) => reported[1] = LineS

\* C9 amended: the same for every line S of at most 63 characters, the
\* number of characters fgets can put in line[64].
C9_RoundTripFittingLine ==
    (reported # <<>> /\ AllSucceeded /\ Len(LineS) <= LINE_SIZE - 1)
        => reported[1] = LineS

C9_Witness ==
    /\ reported # <<>>
    /\ AllSucceeded
    /\ Len(LineS) = LINE_SIZE - 1
    /\ reported[1] = LineS

\* the test function of the session has returned
Returned(m) ==
    IF m = "write"
    THEN pc \in {"r_malloc", "r_fopen", "r_start", "r_loop", "r_fclose",
                 "r_end", "r_free", "r_unlink", "unmount", "done"}
    ELSE pc \in {"unmount", "done"}

\* C10: the buffer of a session is never freed twice and never used after
\* it was freed, and whenever its allocation succeeded it has been freed
\* exactly once when the test function returns.
C10_BufferFreedOnce ==
    \A m \in Modes :
        /\ s[m].frees <= s[m].allocs
        /\ s[m].frees <= 1
        /\ ~s[m].uaf
        /\ s[m].buf = "held" <=> (s[m].allocs = 1 /\ s[m].frees = 0)
        /\ (Returned(m) /\ s[m].allocs = 1) => s[m].frees = 1

C10_Witness ==
    /\ pc = "done"
    /\ s["write"].outcome = "failed"
    /\ s["write"].frees = 1
    /\ s["read"].allocs = 1
    /\ s["read"].fh = "null"
    /\ s["read"].frees = 1

\* the calls that use the handle of a path, and the call that releases it
HandleUses == {"fprintf", "fgets", "fwrite", "fread", "fflush", "fsync"}

RECURSIVE HandleDiscipline(_, _, _)
\* the calls from the i-th on keep to the discipline of the handle of path
\* p, of which open (0 or 1) are open before the i-th call: fopen only with
\* none open, every use and every fclose only with one open; at the end as
\* many are open as nopen says
HandleDiscipline(p, i, open) ==
    IF i > Len(trace) THEN open = nopen[p]
    ELSE IF trace[i].path # p THEN HandleDiscipline(p, i + 1, open)
    ELSE IF trace[i].op = "fopen"
         THEN open = 0 /\ HandleDiscipline(p, i + 1, IF trace[i].ok THEN 1 ELSE 0)
    ELSE IF trace[i].op = "fclose"
         THEN open = 1 /\ HandleDiscipline(p, i + 1, 0)
    ELSE IF trace[i].op \in HandleUses
         THEN open = 1 /\ HandleDiscipline(p, i + 1, open)
    ELSE HandleDiscipline(p, i + 1, open)

\* C11: at most one handle is open per path at any time; a handle is read,
\* written, flushed, synced or closed only while it is open, so it is closed
\* at most once and not used afterwards; and every handle that was opened
\* has been closed when its function has returned, also after a failed
\* transfer.
C11_HandlesOpenedOnceClosedOnce ==
    /\ \A p \in Paths : nopen[p] \in {0, 1} /\ HandleDiscipline(p, 1, 0)
    /\ pc \in {"unmount", "done"} => \A p \in Paths : nopen[p] = 0
    /\ \A m \in Modes :
        /\ s[m].closes = (IF s[m].fh = "closed" THEN 1 ELSE 0)
        /\ (Returned(m) /\ s[m].fh # "null") => s[m].fh = "closed"

C11_Witness ==
    /\ pc = "done"
    /\ \A m \in Modes : s[m].outcome = "failed" /\ s[m].closes = 1
    /\ Cardinality(Calls("fclose", "test")) = 2
    /\ Cardinality(Calls("fclose", "hello")) = 1
    /\ Cardinality(Calls("fclose", "foo")) = 1

\* the two places of ensure_absent: before the rename on foo.txt, at the
\* start of the write test on test.txt
EnsuredPaths == {"foo", "test"}

StatPc(p) == IF p = "foo" THEN "foo_stat" ELSE "w_stat"

AfterEnsureAbsent(p) == IF p = "foo" THEN "rename" ELSE "w_malloc"

\* C12: ensure_absent on a path that holds no file is one stat call and
\* nothing else: no unlink is called, no call fails, the file system is
\* unchanged and the program goes on.  The path is still absent afterwards,
\* so a second application would again do just that.
C12_EnsureAbsentOnAbsentPath ==
    [][\A p \in EnsuredPaths :
          (pc = StatPc(p) /\ ~exists[p])
              => /\ pc' = AfterEnsureAbsent(p)
                 /\ trace' = Append(trace, [op |-> "stat", path |-> p, ok |-> FALSE])
                 /\ exists' = exists /\ data' = data /\ tsize' = tsize
                 /\ exit' = "running"
                 /\ ~exists'[p]]_vars

C12_Witness ==
    /\ pc = "w_malloc"
    /\ trace[Len(trace)] = [op |-> "stat", path |-> "test", ok |-> FALSE]
    /\ \E i \in Calls("stat", "foo") : ~trace[i].ok
    /\ Calls("unlink", "foo") = {} /\ Calls("unlink", "test") = {}

\* C13: in the app_main of main/, once the mount has succeeded, the calls
\* come phase after phase: the mount first, every call of the smoke test
\* before every call on the test file, every fwrite before every fread, and
\* whenever the unmount has been called it is the last call and the call
\* just before it is the unlink of the test file.
C13_PhasesInOrderWithDelete ==
    (variant = "speed" /\ MountSucceeded)
        => /\ trace[1].op = "mount"
           /\ Last({i \in 1..Len(trace) : trace[i].path \in TextPaths})
                <= IF Calls("stat", "test") = {} THEN Len(trace)
                   ELSE First(Calls("stat", "test"))
           /\ Calls("fread", "test") # {}
                => Last(Calls("fwrite", "test")) < First(Calls("fread", "test"))
           /\ unmounts > 0
                => /\ trace[Len(trace)].op = "unmount"
                   /\ trace[Len(trace) - 1] \in
                        {[op |-> "unlink", path |-> "test", ok |-> b] :
                            b \in BOOLEAN}

\* C14: a speed line is printed for a session only when the session is
\* Completed, and the byte count it states is the session's byte count; a
\* Failed session never states the whole target size as transferred.
C14_SpeedLineOnlyWhenCompleted ==
    \A m \in Modes :
        \A i \in SpeedLines(m) :
            /\ s[m].outcome = "completed"
            /\ log[i].args.bytes = s[m].bytes

\* the last chunk of the session came up short
LastShort(m) ==
    Len(s[m].chunks) > 0 /\ Short(s[m].chunks[Len(s[m].chunks)])

\* C15: a session that is Transferring eventually is Completed or Failed
\* (every call returning); it is Completed only with every chunk whole and
\* Failed only on a short chunk; once it is either, its outcome and its
\* chunks never change again; and after a short chunk no chunk is requested
\* any more.
C15_OneWayOutOfTransferring ==
    /\ \A m \in Modes : (s[m].outcome = "transferring") ~> LoopLeft(m)
    /\ [](\A m \in Modes :
            /\ s[m].outcome = "completed" => (NoShort(m) /\ s[m].bytes >= target_size)
            /\ s[m].outcome = "failed" => LastShort(m))
    /\ [][\A m \in Modes :
            /\ LoopLeft(m) => (s'[m].outcome = s[m].outcome
                                 /\ s'[m].chunks = s[m].chunks)
            /\ LastShort(m) => s'[m].chunks = s[m].chunks
            /\ s'[m].outcome # s[m].outcome
                 => <<s[m].outcome, s'[m].outcome>> \in
                      {<<"idle", "transferring">>, <<"transferring", "completed">>,
                       <<"transferring", "failed">>}]_vars

C15_Witness ==
    /\ pc = "done"
    /\ s["write"].outcome = "completed"
    /\ Len(s["write"].chunks) >= 2
    /\ s["read"].outcome = "failed"
    /\ Len(s["read"].chunks) >= 2

\* the session requests one more chunk in this step
Requests(m) == Len(s'[m].chunks) = Len(s[m].chunks) + 1

\* C16: in every state of a write or read session the bytes transferred lie
\* in 0..target_size, no step lowers them, and every chunk requested is of a
\* size in 1..buffer_size that does not exceed target_size less the bytes
\* transferred when it is requested.
C16_BytesBoundedChunksFit ==
    /\ [](\A m \in Modes : s[m].bytes >= 0 /\ s[m].bytes <= target_size)
    /\ [][\A m \in Modes :
            /\ s'[m].bytes >= s[m].bytes
            /\ Len(s'[m].chunks) \in {Len(s[m].chunks), Len(s[m].chunks) + 1}
            /\ Requests(m) =>
                 LET c == s'[m].chunks[Len(s'[m].chunks)]
                 IN /\ c.req >= 1
                    /\ c.req <= buffer_size
                    /\ c.req <= target_size - s[m].bytes
                    /\ s'[m].bytes \in {s[m].bytes, s[m].bytes + c.req}]_vars

C16_Witness ==
    /\ pc = "r_end"
    /\ \A m \in Modes :
        /\ s[m].bytes = target_size
        /\ Len(s[m].chunks) >= 2
        /\ s[m].chunks[1].req = buffer_size
        /\ s[m].chunks[Len(s[m].chunks)].req < buffer_size

\* test_write_speed was entered, which is where a run is once the smoke test
\* has succeeded
WriteTestEntered == Calls("stat", "test") # {}

\* test_read_speed was entered
ReadTestEntered == \E i \in 1..Len(log) : log[i].tag = "Testing read speed..."

\* C17: once the smoke test has succeeded the unmount is eventually called,
\* whatever fails in the two speed tests: the write test is always followed
\* by the read test and the read test by the unmount, and the run ends
\* unmounted.
C17_SpeedTestFailuresNeverBlockUnmount ==
    /\ (pc = "w_stat") ~> (unmounts = 1 /\ mounted = "released")
    /\ []((WriteTestEntered /\ Returned("write")) => ReadTestEntered \/ pc = "r_malloc")
    /\ []((WriteTestEntered /\ pc = "done")
            => (exit = "normal" /\ unmounts = 1 /\ ReadTestEntered))

C17_Witness ==
    /\ pc = "done"
    /\ unmounts = 1
    /\ s["write"].outcome = "failed"
    /\ s["read"].allocs = 0
    /\ ReadTestEntered

\* the allocation of the session's test function: the first malloc of a run
\* is that of test_write_speed, the next that of test_read_speed
MallocOf(m) ==
    LET M == Calls("malloc", "-")
    IN IF m = "write" THEN {i \in M : i = First(M)} ELSE {i \in M : i # First(M)}

\* the fopen of the test file made by the session's test function
FopenOf(m) ==
    {i \in Calls("fopen", "test") :
        (m = "read") <=> (\E j \in MallocOf("read") : j < i)}

\* the allocation or the open of the session failed
Aborted(m) ==
    \/ \E i \in MallocOf(m) : ~trace[i].ok
    \/ \E i \in FopenOf(m) : ~trace[i].ok

ChunkOp(m) == IF m = "write" THEN "fwrite" ELSE "fread"

\* the timestamps taken by a session: one at the start, one at the end
Timestamps(m) ==
    (IF s[m].outcome # "idle" THEN 1 ELSE 0) + (IF s[m].timed THEN 1 ELSE 0)

\* C18: when the allocation or the open of test_write_speed or
\* test_read_speed fails, the function returns at once: it takes no
\* timestamp, issues no chunk operation, reports no speed line, and holds
\* neither an open handle nor a buffer when it has returned.
C18_AbortOnAllocOrOpenFailure ==
    /\ Cardinality(Calls("timer", "-")) = Timestamps("write") + Timestamps("read")
    /\ \A m \in Modes :
        Aborted(m)
            => /\ Returned(m)
               /\ Timestamps(m) = 0
               /\ s[m].chunks = <<>>
               /\ Calls(ChunkOp(m), "test") = {}
               /\ SpeedLines(m) = {}
               /\ s[m].fh = "null"
               /\ s[m].closes = 0
               /\ s[m].buf # "held"
               /\ s[m].frees = s[m].allocs

C18_Witness ==
    /\ pc = "done"
    /\ \E i \in MallocOf("write") : ~trace[i].ok
    /\ \E i \in FopenOf("read") : ~trace[i].ok
    /\ s["read"].frees = 1

FileOps ==
    {"stat", "unlink", "fopen", "fprintf", "fgets", "fwrite", "fread", "fflush",
     "fsync", "fclose", "rename"}

\* the file operations of the run, by their place among its calls
FileOpCalls == {i \in 1..Len(trace) : trace[i].op \in FileOps}

\* C19: every file operation comes after a successful mount and before the
\* unmount; a failed mount ends the run with no file operation and no
\* unmount; and the unmount is called at most once in a run.
C19_FileOpsBetweenMountAndUnmount ==
    /\ Calls("mount", "-") = (IF trace = <<>> THEN {} ELSE {1})
    /\ Cardinality(Calls("unmount", "-")) = unmounts
    /\ unmounts <= 1
    /\ (mounted = "released") <=> (unmounts = 1)
    /\ (trace # <<>> /\ ~trace[1].ok)
         => /\ Len(trace) = 1
            /\ unmounts = 0
            /\ mounted = "no"
            /\ pc = "done"
            /\ exit = "mount_failed"
    /\ \A i \in FileOpCalls :
         /\ trace[1].op = "mount" /\ trace[1].ok
         /\ i > 1
         /\ \A j \in Calls("unmount", "-") : i < j

C19_Witness ==
    /\ pc = "done"
    /\ unmounts = 1
    /\ trace[Len(trace)].op = "unmount"
    /\ \A op \in FileOps \ {"unlink"} : \E i \in FileOpCalls : trace[i].op = op

====
